---- MODULE Spec2Model ----
(***************************************************************************)
(* The input converter of the polynomial calculator (src/src/parse.c):     *)
(* Parse turns one '\0'-terminated line into a command, a polynomial or an *)
(* error, printing one diagnostic on the error stream in the last case.    *)
(*                                                                         *)
(* Characters are their ASCII codes, so that the <ctype.h> predicates are  *)
(* the C-locale ranges.  A line is a CVector: the sequence items, of       *)
(* length size, whose C index i is items[i + 1].  Numbers are exact        *)
(* decimal values [neg, mag], mag a digit sequence without leading zeros,  *)
(* so that the 64-bit limits of strtoll/strtoull/strtol are the real ones. *)
(***************************************************************************)
EXTENDS Integers, Sequences, FiniteSets, TLC

VARIABLES pc, lineNr, errno, str, line, stderr, heap, reads

vars == <<pc, lineNr, errno, str, line, stderr, heap, reads>>

(***************************************************************************)
(* Characters                                                              *)
(***************************************************************************)
NUL == 0
TAB == 9
SPACE == 32
LPAREN == 40
RPAREN == 41
PLUS == 43
COMMA == 44
MINUS == 45
DIGIT0 == 48

\* ASCII 40 .. 90 and 97 .. 122, in order.
AsciiFrom40 == "()*+,-./0123456789:;<=>?@ABCDEFGHIJKLMNOPQRSTUVWXYZ"
AsciiFrom97 == "abcdefghijklmnopqrstuvwxyz"

Ord(ch) ==
    CASE ch = " " -> SPACE
      [] ch = "\t" -> TAB
      [] ch = "\n" -> 10
      [] ch = "_" -> 95
      [] \E i \in 1..Len(AsciiFrom40) : SubSeq(AsciiFrom40, i, i) = ch ->
            39 + (CHOOSE i \in 1..Len(AsciiFrom40) : SubSeq(AsciiFrom40, i, i) = ch)
      [] OTHER ->
            96 + (CHOOSE i \in 1..Len(AsciiFrom97) : SubSeq(AsciiFrom97, i, i) = ch)

\* The characters of a C string literal, without its terminating '\0'.
Str(s) == [i \in 1..Len(s) |-> Ord(SubSeq(s, i, i))]

isdigit(c) == c \in 48..57
isalpha(c) == c \in (65..90) \cup (97..122)
isspace(c) == c \in {SPACE} \cup (9..13)

(***************************************************************************)
(* Exact decimal values                                                    *)
(***************************************************************************)
RECURSIVE Strip(_)
Strip(ds) ==
    IF Len(ds) > 1 /\ Head(ds) = 0 THEN Strip(Tail(ds))
    ELSE IF ds = <<>> THEN <<0>> ELSE ds

RECURSIVE LexLeq(_, _)
LexLeq(a, b) ==
    IF a = <<>> THEN TRUE
    ELSE IF Head(a) # Head(b) THEN Head(a) < Head(b)
    ELSE LexLeq(Tail(a), Tail(b))

\* a <= b for two magnitudes without leading zeros.
MagLeq(a, b) == Len(a) < Len(b) \/ (Len(a) = Len(b) /\ LexLeq(a, b))

Num(neg, mag) == [neg |-> neg /\ mag # <<0>>, mag |-> mag]
Zero == Num(FALSE, <<0>>)

INT_MAX_MAG == <<2,1,4,7,4,8,3,6,4,7>>
LLONG_MAX_MAG == <<9,2,2,3,3,7,2,0,3,6,8,5,4,7,7,5,8,0,7>>
LLONG_MIN_MAG == <<9,2,2,3,3,7,2,0,3,6,8,5,4,7,7,5,8,0,8>>
ULLONG_MAX_MAG == <<1,8,4,4,6,7,4,4,0,7,3,7,0,9,5,5,1,6,1,5>>
\* 2^64
TWO64_MAG == <<1,8,4,4,6,7,4,4,0,7,3,7,0,9,5,5,1,6,1,6>>

\* a - b on digit sequences of one length, a >= b, from the last digit up.
RECURSIVE SubDigits(_, _, _, _)
SubDigits(a, b, i, borrow) ==
    IF i = 0 THEN <<>>
    ELSE LET d == a[i] - b[i] - borrow
         IN  Append(SubDigits(a, b, i - 1, IF d < 0 THEN 1 ELSE 0),
                    IF d < 0 THEN d + 10 ELSE d)

PadTo(ds, n) == [i \in 1..n |-> IF i <= n - Len(ds) THEN 0 ELSE ds[i - (n - Len(ds))]]

\* Negation in unsigned 64-bit arithmetic of a magnitude 1 .. 2^64 - 1.
Neg64(mag) ==
    IF mag = <<0>> THEN mag
    ELSE Strip(SubDigits(TWO64_MAG, PadTo(mag, Len(TWO64_MAG)), Len(TWO64_MAG), 0))

ERANGE == 34


(***************************************************************************)
(* Memory: the line and what lies behind it                                *)
(***************************************************************************)
\* A read at an index >= size is outside the vector: the byte right behind it
\* is whatever the allocator left there (beyond), chosen by the caller.
CVector(items, beyond) == [items |-> items, size |-> Len(items), beyond |-> beyond]

At(cv, i) ==
    IF i >= 0 /\ i < cv.size THEN cv.items[i + 1]
    ELSE IF i = cv.size THEN cv.beyond ELSE NUL

\* The effects of a call: errno, the indices of the line read so far, the
\* objects made and destroyed so far, and the error stream.
Io(e) == [errno |-> e, rd |-> {}, made |-> <<>>, freed |-> <<>>, out |-> <<>>]

Rd(io, idx) == [io EXCEPT !.rd = @ \cup idx]

\* An indeterminate char* (declared, never assigned).
Uninit == -1

(***************************************************************************)
(* <stdlib.h>: strtoll, strtol, strtoull in base 10                        *)
(***************************************************************************)
RECURSIVE SkipSpace(_, _)
SkipSpace(cv, i) == IF isspace(At(cv, i)) THEN SkipSpace(cv, i + 1) ELSE i

RECURSIVE SkipDigits(_, _)
SkipDigits(cv, i) == IF isdigit(At(cv, i)) THEN SkipDigits(cv, i + 1) ELSE i

\* The subject sequence: white space, an optional sign, digits.  With no digit
\* nothing is converted and the end pointer is the start.
Scan(cv, begin) ==
    LET Subject(s, d, e) ==
            [neg |-> At(cv, s) = MINUS,
             none |-> e = d,
             end |-> IF e = d THEN begin ELSE e,
             mag |-> Strip([k \in 1..(e - d) |-> At(cv, d + k - 1) - DIGIT0]),
             rd |-> begin..e]
        Digits(s, d) == Subject(s, d, SkipDigits(cv, d))
        Sign(s) == Digits(s, IF At(cv, s) \in {MINUS, PLUS} THEN s + 1 ELSE s)
    IN  Sign(SkipSpace(cv, begin))

\* errno is set on overflow and left alone otherwise.
StrToSigned(cv, begin, io, minMag, maxMag) ==
    LET Converted(t, over) ==
            [val |-> IF t.none THEN Zero
                     ELSE IF over THEN Num(t.neg, IF t.neg THEN minMag ELSE maxMag)
                     ELSE Num(t.neg, t.mag),
             end |-> t.end,
             io |-> [io EXCEPT !.errno = IF over THEN ERANGE ELSE @,
                               !.rd = @ \cup t.rd]]
        Subject(t) ==
            Converted(t, ~t.none /\ ~MagLeq(t.mag, IF t.neg THEN minMag ELSE maxMag))
    IN  Subject(Scan(cv, begin))

strtoll(cv, begin, io) == StrToSigned(cv, begin, io, LLONG_MIN_MAG, LLONG_MAX_MAG)

\* long is 64 bits wide (LP64).
strtol(cv, begin, io) == StrToSigned(cv, begin, io, LLONG_MIN_MAG, LLONG_MAX_MAG)

strtoull(cv, begin, io) ==
    LET Converted(t, over) ==
            [val |-> IF t.none THEN Zero
                     ELSE IF over THEN Num(FALSE, ULLONG_MAX_MAG)
                     ELSE IF t.neg THEN Num(FALSE, Neg64(t.mag))
                     ELSE Num(FALSE, t.mag),
             end |-> t.end,
             io |-> [io EXCEPT !.errno = IF over THEN ERANGE ELSE @,
                               !.rd = @ \cup t.rd]]
        Subject(t) == Converted(t, ~t.none /\ ~MagLeq(t.mag, ULLONG_MAX_MAG))
    IN  Subject(Scan(cv, begin))

(***************************************************************************)
(* <string.h> on the line and a string literal                             *)
(***************************************************************************)
LitAt(lit, k) == IF k < Len(lit) THEN lit[k + 1] ELSE NUL

\* The first index below n at which the comparison stops: the characters
\* differ or the line's is '\0'; n when there is none.
StopAt(cv, lit, n) ==
    IF \E k \in 0..(n - 1) : At(cv, k) # LitAt(lit, k) \/ At(cv, k) = NUL
    THEN CHOOSE k \in 0..(n - 1) :
            /\ At(cv, k) # LitAt(lit, k) \/ At(cv, k) = NUL
            /\ \A j \in 0..(k - 1) : At(cv, j) = LitAt(lit, j) /\ At(cv, j) # NUL
    ELSE n

\* strcmp(cv->items, lit) == 0
strcmp0(cv, lit) ==
    LET Stopped(k) ==
            [b |-> k <= Len(lit) /\ At(cv, k) = LitAt(lit, k), rd |-> 0..k]
    IN  Stopped(StopAt(cv, lit, Len(lit) + 1))

\* strncmp(lit, cv->items, strlen(lit)) == 0
strncmp0(cv, lit) ==
    LET Stopped(k, n) == [b |-> k = n, rd |-> 0..(IF k < n THEN k ELSE n - 1)]
    IN  Stopped(StopAt(cv, lit, Len(lit)), Len(lit))

(***************************************************************************)
(* Polynomials, terms and the term vector (poly.h, vector.h)               *)
(*                                                                         *)
(* A coefficient and a zeroed Poly own no storage.  A sum of terms owns    *)
(* its terms and each term owns its coefficient.  Objects that own storage *)
(* carry an identity: their kind and the index of the line where their     *)
(* text starts.  PolyAddMonos keeps the terms as they were handed to it.   *)
(***************************************************************************)
ZeroedPoly == [tag |-> "zeroed"]
ZeroedMono == [tag |-> "zeroed"]

PolyFromCoeff(x) == [tag |-> "coeff", c |-> x]

MonoFromPoly(p, exp, at) == [id |-> <<"M", at>>, p |-> p, exp |-> exp]

PolyAddMonos(monos, at) == [tag |-> "monos", id |-> <<"P", at>>, monos |-> monos]

MVectorNew(at) == [id |-> <<"V", at>>, items |-> <<>>]

MVectorPush(v, m) == [v EXCEPT !.items = Append(@, m)]

RECURSIVE IdsOfPoly(_)
RECURSIVE IdsOfMonos(_, _)
\* The identities of everything p owns, p included.
IdsOfPoly(p) ==
    IF p.tag = "monos" THEN <<p.id>> \o IdsOfMonos(p.monos, 1) ELSE <<>>

IdsOfMonos(ms, i) ==
    IF i > Len(ms) THEN <<>>
    ELSE <<ms[i].id>> \o IdsOfPoly(ms[i].p) \o IdsOfMonos(ms, i + 1)

Made(io, ids) == [io EXCEPT !.made = @ \o ids]

PolyDestroy(p, io) == [io EXCEPT !.freed = @ \o IdsOfPoly(p)]

MVectorDeepFree(v, io) == [io EXCEPT !.freed = @ \o IdsOfMonos(v.items, 1) \o <<v.id>>]

MVectorFree(v, io) == [io EXCEPT !.freed = @ \o <<v.id>>]

(***************************************************************************)
(* The parsed line (line.h) and the diagnostic                             *)
(***************************************************************************)
NoArg == [none |-> TRUE]

WrongLine == [type |-> "ERROR", cmd |-> "", arg |-> NoArg, p |-> ZeroedPoly]
CommandLine(c) == [type |-> "COMMAND", cmd |-> c, arg |-> NoArg, p |-> ZeroedPoly]
CommandLineWithArg(c, a) == [type |-> "COMMAND", cmd |-> c, arg |-> a, p |-> ZeroedPoly]
PolyLine(p) == [type |-> "POLY", cmd |-> "", arg |-> NoArg, p |-> p]

DEG_BY_WRONG_VARIABLE == "DEG BY WRONG VARIABLE"
AT_WRONG_VALUE == "AT WRONG VALUE"
COMPOSE_WRONG_PARAMETER == "COMPOSE WRONG PARAMETER"
WRONG_COMMAND == "WRONG COMMAND"
WRONG_POLY == "WRONG POLY"

\* fprintf(stderr, "ERROR %zu %s\n", lineNr, msg)
PrintErrorMsg(nr, msg, io) == [io EXCEPT !.out = Append(@, <<"ERROR", nr, msg>>)]

(***************************************************************************)
(* parse.c: the polynomial parser                                          *)
(***************************************************************************)
IsLegalCaracter(c) ==
    isdigit(c) \/ c = MINUS \/ c = PLUS \/ c = LPAREN \/ c = RPAREN \/ c = COMMA

\* for (i = 0; i < size - 1; ++i) if (!IsLegalCaracter(items[i])) return true;
HasIllegalCharacters(cv) ==
    LET bad == {i \in 0..(cv.size - 2) : ~IsLegalCaracter(At(cv, i))}
        first == CHOOSE i \in bad : \A j \in bad : i <= j
    IN  IF bad = {} THEN [b |-> FALSE, rd |-> 0..(cv.size - 2)]
        ELSE [b |-> TRUE, rd |-> 0..first]

IsDigitOrMinus(c) == isdigit(c) \/ c = MINUS

\* while (*s && ctr >= 0) { ... s++; }  return ctr == 0;
RECURSIVE ParenLoop(_, _, _)
ParenLoop(cv, s, ctr) ==
    IF ctr < 0 THEN [b |-> FALSE, rd |-> 0..(s - 1)]
    ELSE IF At(cv, s) = NUL THEN [b |-> ctr = 0, rd |-> 0..s]
    ELSE ParenLoop(cv, s + 1,
                   IF At(cv, s) = LPAREN THEN ctr + 1
                   ELSE IF At(cv, s) = RPAREN THEN ctr - 1 ELSE ctr)

AreParenthesesValid(cv) == ParenLoop(cv, 0, 0)

\* ParseExp without the comparison with INT_MAX.
ParseExp_NoIntMax(cv, begin, end, err, io) ==
    LET Converted(r, range) ==
            IF range \/ At(cv, r.end) # RPAREN
            THEN [val |-> Zero, end |-> r.end, err |-> TRUE,
                  io |-> IF range THEN r.io ELSE Rd(r.io, {r.end})]
            ELSE [val |-> r.val, end |-> r.end, err |-> err, io |-> Rd(r.io, {r.end})]
        Returned(r) == Converted(r, r.io.errno = ERANGE)
    IN  IF ~isdigit(At(cv, begin))
        THEN [val |-> Zero, end |-> end, err |-> TRUE, io |-> Rd(io, {begin})]
        ELSE Returned(strtol(cv, begin, [Rd(io, {begin}) EXCEPT !.errno = 0]))

\* x <= INT_MAX where ParseExp returns it, so the conversion of the long to
\* int keeps the value.
ParseExp(cv, begin, end, err, io) ==
    LET Converted(r, range) ==
            IF range \/ At(cv, r.end) # RPAREN \/ ~MagLeq(r.val.mag, INT_MAX_MAG)
            THEN [val |-> Zero, end |-> r.end, err |-> TRUE,
                  io |-> IF range THEN r.io ELSE Rd(r.io, {r.end})]
            ELSE [val |-> r.val, end |-> r.end, err |-> err, io |-> Rd(r.io, {r.end})]
        Returned(r) == Converted(r, r.io.errno = ERANGE)
    IN  IF ~isdigit(At(cv, begin))
        THEN [val |-> Zero, end |-> end, err |-> TRUE, io |-> Rd(io, {begin})]
        ELSE Returned(strtol(cv, begin, [Rd(io, {begin}) EXCEPT !.errno = 0]))

RECURSIVE ParseMono(_, _, _, _, _)
RECURSIVE ParsePolyHelper(_, _, _, _, _)
RECURSIVE ParseMonos(_, _, _, _, _, _, _)

\* ParseMono without the PolyDestroy that follows a failed ParseExp.
ParseMono_Leak(cv, begin, end, err, io) ==
    LET Exp(r, e) ==
            IF e.err
            THEN [m |-> ZeroedMono, end |-> e.end, err |-> TRUE, io |-> e.io]
            ELSE [m |-> MonoFromPoly(r.p, e.val, begin), end |-> e.end,
                  err |-> e.err, io |-> Made(e.io, <<<<"M", begin>>>>)]
        Poly(r) ==
            IF r.err
            THEN [m |-> ZeroedMono, end |-> r.end, err |-> TRUE, io |-> r.io]
            ELSE IF At(cv, r.end) = NUL
            THEN [m |-> ZeroedMono, end |-> r.end, err |-> TRUE,
                  io |-> PolyDestroy(r.p, Rd(r.io, {r.end}))]
            ELSE Exp(r, ParseExp(cv, r.end + 1, r.end, r.err, Rd(r.io, {r.end})))
    IN  IF At(cv, begin) = NUL
        THEN [m |-> ZeroedMono, end |-> end, err |-> TRUE, io |-> Rd(io, {begin})]
        ELSE Poly(ParsePolyHelper(cv, begin, end, err, Rd(io, {begin})))

ParseMono(cv, begin, end, err, io) ==
    LET Exp(r, e) ==
            IF e.err
            THEN [m |-> ZeroedMono, end |-> e.end, err |-> TRUE,
                  io |-> PolyDestroy(r.p, e.io)]
            ELSE [m |-> MonoFromPoly(r.p, e.val, begin), end |-> e.end,
                  err |-> e.err, io |-> Made(e.io, <<<<"M", begin>>>>)]
        Poly(r) ==
            IF r.err
            THEN [m |-> ZeroedMono, end |-> r.end, err |-> TRUE, io |-> r.io]
            ELSE IF At(cv, r.end) = NUL
            THEN [m |-> ZeroedMono, end |-> r.end, err |-> TRUE,
                  io |-> PolyDestroy(r.p, Rd(r.io, {r.end}))]
            ELSE Exp(r, ParseExp(cv, r.end + 1, r.end, r.err, Rd(r.io, {r.end})))
    IN  IF At(cv, begin) = NUL
        THEN [m |-> ZeroedMono, end |-> end, err |-> TRUE, io |-> Rd(io, {begin})]
        ELSE Poly(ParsePolyHelper(cv, begin, end, err, Rd(io, {begin})))

\* ParseMonos handing PolyAddMonos one term fewer than it pushed.
ParseMonos_DropsTerm(cv, first, begin, end, err, monos, io) ==
    LET Pushed(r, pushed, next, c) ==
            IF c = NUL \/ c = COMMA
            THEN [p |-> PolyAddMonos(monos.items, first), end |-> next, err |-> r.err,
                  io |-> MVectorFree(pushed,
                             Made(Rd(r.io, {next}), <<<<"P", first>>>>))]
            ELSE IF c # PLUS
            THEN [p |-> ZeroedPoly, end |-> next, err |-> TRUE,
                  io |-> MVectorDeepFree(pushed, Rd(r.io, {next}))]
            ELSE ParseMonos(cv, first, next + 1, next, r.err, pushed, Rd(r.io, {next}))
        Mono(r) ==
            IF r.err
            THEN [p |-> ZeroedPoly, end |-> r.end, err |-> TRUE,
                  io |-> MVectorDeepFree(monos, r.io)]
            ELSE Pushed(r, MVectorPush(monos, r.m), r.end + 1, At(cv, r.end + 1))
    IN  IF At(cv, begin) # LPAREN
        THEN [p |-> ZeroedPoly, end |-> end, err |-> TRUE,
              io |-> MVectorDeepFree(monos, Rd(io, {begin}))]
        ELSE Mono(ParseMono(cv, begin + 1, end, err, Rd(io, {begin})))

\* ParseMonos without the test that a term starts with '('.
ParseMonos_NoParenCheck(cv, first, begin, end, err, monos, io) ==
    LET Pushed(r, pushed, next, c) ==
            IF c = NUL \/ c = COMMA
            THEN [p |-> PolyAddMonos(pushed.items, first), end |-> next, err |-> r.err,
                  io |-> MVectorFree(pushed,
                             Made(Rd(r.io, {next}), <<<<"P", first>>>>))]
            ELSE IF c # PLUS
            THEN [p |-> ZeroedPoly, end |-> next, err |-> TRUE,
                  io |-> MVectorDeepFree(pushed, Rd(r.io, {next}))]
            ELSE ParseMonos(cv, first, next + 1, next, r.err, pushed, Rd(r.io, {next}))
        Mono(r) ==
            IF r.err
            THEN [p |-> ZeroedPoly, end |-> r.end, err |-> TRUE,
                  io |-> MVectorDeepFree(monos, r.io)]
            ELSE Pushed(r, MVectorPush(monos, r.m), r.end + 1, At(cv, r.end + 1))
    IN  Mono(ParseMono(cv, begin + 1, end, err, io))

\* The loop of ParsePolyHelper over the terms of a sum; first is where the
\* sum starts, begin where its next term is expected.
ParseMonos(cv, first, begin, end, err, monos, io) ==
    LET Pushed(r, pushed, next, c) ==
            IF c = NUL \/ c = COMMA
            THEN [p |-> PolyAddMonos(pushed.items, first), end |-> next, err |-> r.err,
                  io |-> MVectorFree(pushed,
                             Made(Rd(r.io, {next}), <<<<"P", first>>>>))]
            ELSE IF c # PLUS
            THEN [p |-> ZeroedPoly, end |-> next, err |-> TRUE,
                  io |-> MVectorDeepFree(pushed, Rd(r.io, {next}))]
            ELSE ParseMonos(cv, first, next + 1, next, r.err, pushed, Rd(r.io, {next}))
        Mono(r) ==
            IF r.err
            THEN [p |-> ZeroedPoly, end |-> r.end, err |-> TRUE,
                  io |-> MVectorDeepFree(monos, r.io)]
            ELSE Pushed(r, MVectorPush(monos, r.m), r.end + 1, At(cv, r.end + 1))
    IN  IF At(cv, begin) # LPAREN
        THEN [p |-> ZeroedPoly, end |-> end, err |-> TRUE,
              io |-> MVectorDeepFree(monos, Rd(io, {begin}))]
        ELSE Mono(ParseMono(cv, begin + 1, end, err, Rd(io, {begin})))

\* ParsePolyHelper without errno = 0 before strtoll.
ParsePolyHelper_StaleErrno(cv, begin, end, err, io) ==
    LET Coeff(r, range) ==
            [p |-> PolyFromCoeff(r.val), end |-> r.end,
             err |-> err \/ range \/ (At(cv, r.end) # COMMA /\ At(cv, r.end) # NUL),
             io |-> IF range THEN r.io ELSE Rd(r.io, {r.end})]
        Converted(r) == Coeff(r, r.io.errno = ERANGE)
    IN  IF At(cv, begin) = NUL
        THEN [p |-> ZeroedPoly, end |-> end, err |-> TRUE, io |-> Rd(io, {begin})]
        ELSE IF IsDigitOrMinus(At(cv, begin))
        THEN Converted(strtoll(cv, begin, Rd(io, {begin})))
        ELSE ParseMonos(cv, begin, begin, end, err, MVectorNew(begin),
                        Made(Rd(io, {begin}), <<<<"V", begin>>>>))

ParsePolyHelper(cv, begin, end, err, io) ==
    LET Coeff(r, range) ==
            [p |-> PolyFromCoeff(r.val), end |-> r.end,
             err |-> err \/ range \/ (At(cv, r.end) # COMMA /\ At(cv, r.end) # NUL),
             io |-> IF range THEN r.io ELSE Rd(r.io, {r.end})]
        Converted(r) == Coeff(r, r.io.errno = ERANGE)
    IN  IF At(cv, begin) = NUL
        THEN [p |-> ZeroedPoly, end |-> end, err |-> TRUE, io |-> Rd(io, {begin})]
        ELSE IF IsDigitOrMinus(At(cv, begin))
        THEN Converted(strtoll(cv, begin, [Rd(io, {begin}) EXCEPT !.errno = 0]))
        ELSE ParseMonos(cv, begin, begin, end, err, MVectorNew(begin),
                        Made(Rd(io, {begin}), <<<<"V", begin>>>>))

\* ParsePoly without the test that the helper stopped at the end of the line.
ParsePoly_NoEndCheck(cv, nr, io) ==
    LET Helper(r) ==
            IF r.err
            THEN [line |-> WrongLine,
                  io |-> PolyDestroy(r.p, PrintErrorMsg(nr, WRONG_POLY, r.io))]
            ELSE [line |-> PolyLine(r.p), io |-> r.io]
        Checked(ill, par, io1) ==
            IF ill.b \/ ~par.b
            THEN [line |-> WrongLine, io |-> PrintErrorMsg(nr, WRONG_POLY, io1)]
            ELSE Helper(ParsePolyHelper(cv, 0, Uninit, FALSE, io1))
        Checks(ill, par) ==
            Checked(ill, par, Rd(io, ill.rd \cup (IF ill.b THEN {} ELSE par.rd)))
    IN  Checks(HasIllegalCharacters(cv), AreParenthesesValid(cv))

\* ParsePoly reporting nothing when the structural parse fails.
ParsePoly_Silent(cv, nr, io) ==
    LET Helper(r) ==
            IF r.err \/ At(cv, r.end) # NUL
            THEN [line |-> WrongLine,
                  io |-> PolyDestroy(r.p, IF r.err THEN r.io ELSE Rd(r.io, {r.end}))]
            ELSE [line |-> PolyLine(r.p), io |-> Rd(r.io, {r.end})]
        Checked(ill, par, io1) ==
            IF ill.b \/ ~par.b
            THEN [line |-> WrongLine, io |-> PrintErrorMsg(nr, WRONG_POLY, io1)]
            ELSE Helper(ParsePolyHelper(cv, 0, Uninit, FALSE, io1))
        Checks(ill, par) ==
            Checked(ill, par, Rd(io, ill.rd \cup (IF ill.b THEN {} ELSE par.rd)))
    IN  Checks(HasIllegalCharacters(cv), AreParenthesesValid(cv))

ParsePoly(cv, nr, io) ==
    LET Helper(r) ==
            IF r.err \/ At(cv, r.end) # NUL
            THEN [line |-> WrongLine,
                  io |-> PolyDestroy(r.p, PrintErrorMsg(nr, WRONG_POLY,
                             IF r.err THEN r.io ELSE Rd(r.io, {r.end})))]
            ELSE [line |-> PolyLine(r.p), io |-> Rd(r.io, {r.end})]
        Checked(ill, par, io1) ==
            IF ill.b \/ ~par.b
            THEN [line |-> WrongLine, io |-> PrintErrorMsg(nr, WRONG_POLY, io1)]
            ELSE Helper(ParsePolyHelper(cv, 0, Uninit, FALSE, io1))
        Checks(ill, par) ==
            Checked(ill, par, Rd(io, ill.rd \cup (IF ill.b THEN {} ELSE par.rd)))
    IN  Checks(HasIllegalCharacters(cv), AreParenthesesValid(cv))

(***************************************************************************)
(* parse.c: the command classifier                                         *)
(***************************************************************************)
IsPrefix(lit, cv) == strncmp0(cv, lit)

\* IsCorrectCommand without the case of the keyword ending the line.
IsCorrectCommand_NoEol(cv, lit) ==
    LET Prefix(pre, len) ==
            IF ~pre.b THEN [b |-> FALSE, rd |-> pre.rd]
            ELSE [b |-> cv.size > len /\ isspace(At(cv, len)),
                  rd |-> pre.rd \cup (IF cv.size > len THEN {len} ELSE {})]
    IN  Prefix(IsPrefix(lit, cv), Len(lit))

IsCorrectCommand(cv, lit) ==
    LET Prefix(pre, len) ==
            IF ~pre.b THEN [b |-> FALSE, rd |-> pre.rd]
            ELSE [b |-> \/ (cv.size > len /\ isspace(At(cv, len)))
                        \/ (cv.size - 1 = len /\ At(cv, len) = NUL),
                  rd |-> pre.rd \cup (IF cv.size > len THEN {len} ELSE {})]
    IN  Prefix(IsPrefix(lit, cv), Len(lit))

\* IsEqual without the comparison of the sizes.
IsEqual_NoSize(cv, lit) == strcmp0(cv, lit)

IsEqual(cv, lit) ==
    IF cv.size # Len(lit) + 1 THEN [b |-> FALSE, rd |-> {}] ELSE strcmp0(cv, lit)

HasDegByAnArgument(cv) ==
    IF cv.size < 8 THEN [b |-> FALSE, rd |-> {}]
    ELSE IF At(cv, 6) # SPACE THEN [b |-> FALSE, rd |-> {6}]
    ELSE [b |-> isdigit(At(cv, 7)), rd |-> {6, 7}]

HasComposeAnArgument(cv) ==
    IF cv.size < 9 THEN [b |-> FALSE, rd |-> {}]
    ELSE IF At(cv, 7) # SPACE THEN [b |-> FALSE, rd |-> {7}]
    ELSE [b |-> isdigit(At(cv, 8)), rd |-> {7, 8}]

HasAtAnArgument(cv) ==
    IF cv.size < 4 THEN [b |-> FALSE, rd |-> {}]
    ELSE IF At(cv, 2) # SPACE THEN [b |-> FALSE, rd |-> {2}]
    ELSE [b |-> IsDigitOrMinus(At(cv, 3)), rd |-> {2, 3}]

\* ArgumentError without the test of errno.
ArgumentError_NoRange(cv, end, io) ==
    [b |-> At(cv, end) # NUL \/ end # cv.size - 1, rd |-> {end}]

\* errno == ERANGE || *end != '\0' || end - items != size - 1
ArgumentError(cv, end, io) ==
    IF io.errno = ERANGE THEN [b |-> TRUE, rd |-> {}]
    ELSE [b |-> At(cv, end) # NUL \/ end # cv.size - 1, rd |-> {end}]

\* The keywords without an argument, in the order ParseCommand tries them.
NoArgCommands ==
    <<"ZERO", "IS_COEFF", "IS_ZERO", "CLONE", "ADD", "MUL", "NEG", "SUB",
      "IS_EQ", "DEG", "PRINT", "POP">>

NoArgLiterals == [k \in 1..Len(NoArgCommands) |-> Str(NoArgCommands[k])]

DEG_BY == Str("DEG_BY")
AT == Str("AT")
COMPOSE == Str("COMPOSE")

\* The chain of IsEqual tests from the k-th keyword on: the index of the first
\* keyword equal to the line, 0 when there is none.
RECURSIVE FirstEqual(_, _, _)
FirstEqual(cv, k, rd) ==
    LET Equal(e) ==
            IF e.b THEN [k |-> k, rd |-> rd \cup e.rd]
            ELSE FirstEqual(cv, k + 1, rd \cup e.rd)
    IN  IF k > Len(NoArgLiterals) THEN [k |-> 0, rd |-> rd]
        ELSE Equal(IsEqual(cv, NoArgLiterals[k]))

\* One of the three branches for a command with an argument, once
\* IsCorrectCommand held: has is Has...AnArgument's answer, r the conversion.
ArgumentBranch(cv, nr, io, cmd, has, r, msg) ==
    LET Converted(ae, io1) ==
            IF ae.b THEN [line |-> WrongLine, io |-> PrintErrorMsg(nr, msg, io1)]
            ELSE [line |-> CommandLineWithArg(cmd, r.val), io |-> io1]
        Error(ae) == Converted(ae, Rd(r.io, has.rd \cup ae.rd))
    IN  IF ~has.b
        THEN [line |-> WrongLine, io |-> PrintErrorMsg(nr, msg, Rd(io, has.rd))]
        ELSE Error(ArgumentError(cv, r.end, r.io))

ParseCommand(cv, nr, io) ==
    LET Compose(com, io3) ==
            IF com.b
            THEN ArgumentBranch(cv, nr, io3, "COMPOSE", HasComposeAnArgument(cv),
                                strtoull(cv, 8, [io3 EXCEPT !.errno = 0]),
                                COMPOSE_WRONG_PARAMETER)
            ELSE [line |-> WrongLine, io |-> PrintErrorMsg(nr, WRONG_COMMAND, io3)]
        At0(at, io2) ==
            IF at.b
            THEN ArgumentBranch(cv, nr, io2, "AT", HasAtAnArgument(cv),
                                strtoll(cv, 3, [io2 EXCEPT !.errno = 0]),
                                AT_WRONG_VALUE)
            ELSE Compose(IsCorrectCommand(cv, COMPOSE),
                         Rd(io2, IsCorrectCommand(cv, COMPOSE).rd))
        DegBy(deg, io1) ==
            IF deg.b
            THEN ArgumentBranch(cv, nr, io1, "DEG_BY", HasDegByAnArgument(cv),
                                strtoull(cv, 7, [io1 EXCEPT !.errno = 0]),
                                DEG_BY_WRONG_VARIABLE)
            ELSE At0(IsCorrectCommand(cv, AT), Rd(io1, IsCorrectCommand(cv, AT).rd))
        Equal(eq, io0) ==
            IF eq.k # 0 THEN [line |-> CommandLine(NoArgCommands[eq.k]), io |-> io0]
            ELSE DegBy(IsCorrectCommand(cv, DEG_BY),
                       Rd(io0, IsCorrectCommand(cv, DEG_BY).rd))
        Tried(eq) == Equal(eq, Rd(io, eq.rd))
    IN  Tried(FirstEqual(cv, 1, {}))

Parse(cv, nr, io) ==
    IF isalpha(At(cv, 0)) THEN ParseCommand(cv, nr, Rd(io, {0}))
    ELSE ParsePoly(cv, nr, Rd(io, {0}))

(***************************************************************************)
(* The lines Parse is called with                                          *)
(***************************************************************************)
\* The number of lines the driver reads.
MaxLineNr == 2
\* A polynomial line is made of at most MaxPieces pieces of PolyPieces.
MaxPieces == 3
\* What follows DEG_BY, AT or COMPOSE is made of at most MaxTail TailPieces,
\* what follows any other word of at most MaxSuffix.
MaxTail == 2
MaxSuffix == 1

RECURSIVE Flat(_)
Flat(ps) == IF ps = <<>> THEN <<>> ELSE Head(ps) \o Flat(Tail(ps))

SeqsUpTo(S, n) == UNION {[1..k -> S] : k \in 0..n}

PolyPieces == {Str("("), Str(")"), Str(","), Str("+"), Str("-"), Str("1"), Str("(1,2)")}

TailPieces ==
    {Str(" "), Str("\t"), Str("-"), Str("7"), Str("x"), Str(" 7"), <<NUL>>}

ArgWords == {DEG_BY, AT, COMPOSE}

OtherWords ==
    {NoArgLiterals[k] : k \in 1..Len(NoArgLiterals)}
        \cup {Str("zero"), Str("DEG_"), Str("COMPOS")}

\* The decimal limits of the conversions, each with its successor.
Limits ==
    {Str("2147483647"), Str("2147483648"),
     Str("9223372036854775807"), Str("9223372036854775808"),
     Str("9223372036854775809"),
     Str("18446744073709551615"), Str("18446744073709551616")}

Numbers == Limits \cup {Str("0") \o n : n \in Limits} \cup {Str("0"), Str("00"), Str("10")}

LimitLines ==
    UNION {{n, Str("-") \o n,
            Str("(") \o n \o Str(",1)"), Str("(-") \o n \o Str(",1)"),
            Str("(1,") \o n \o Str(")"),
            Str("((1,2),") \o n \o Str(")"),
            Str("(1,2)+(") \o n \o Str(",3)"),
            Str("(") \o n \o Str(",") \o n \o Str(")"),
            Str("DEG_BY ") \o n, Str("COMPOSE ") \o n,
            Str("AT ") \o n, Str("AT -") \o n} : n \in Numbers}

\* Longer sums and deeper nestings, right and wrong, and lines with
\* characters no polynomial has.
PickedLines ==
    {Str("((1,2),3)"), Str("(((1,0),1),2)"), Str("(1,0)+(2,1)+(3,2)"),
     Str("((1,2),3)+((4,5),6)"), Str("((1,0)+(2,1),3)+(4,5)"),
     Str("(1,2)+(3,2)"), Str("((1,1)+(2,1),0)"), Str("(0,1)+(1,01)"),
     Str("((1,2),3)+4"), Str("((1,2),3)+(4,)"), Str("((1,2)+(3,4),5)+(6,7)+"),
     Str("((1,2)+(3,4),5)+((6,7),8)(9,0)"), Str("((1,2)+(3,4),)"),
     Str("((1,2)+(3,4)5,6)"), Str("(((1,2),3),4)+((5,6),7x)"),
     Str("(1,2)+((3,4),5),"), Str("((1,2),3),4"),
     Str("(-9223372036854775808,2147483647)"),
     Str(" ZERO"), Str("1x"), Str("(1,2) "), Str("( 1,2)"), Str("+1"),
     Str("(1,+2)"), Str("(+1,2)"), Str("(1, 2)"), Str("(1,-2)"),
     Str("(1,2)") \o <<NUL>> \o Str("+(3,4)"), <<NUL>> \o Str("(1,2)"),
     <<NUL>> \o Str("ZERO"), Str("ZERO") \o <<NUL>> \o Str("ZERO"),
     Str("DEG_BY 1") \o <<NUL>> \o Str("2"), Str("DEG_BY 12"), Str("AT -12 "),
     Str("COMPOSE 1 2"), Str("DEG_BY\n7"), Str("Deg_by 7"), Str("IS_COEFF X")}

Lines ==
    {Flat(ps) \o <<NUL>> : ps \in SeqsUpTo(PolyPieces, MaxPieces)}
        \cup {w \o Flat(ps) \o <<NUL>> :
                w \in ArgWords, ps \in SeqsUpTo(TailPieces, MaxTail)}
        \cup {w \o Flat(ps) \o <<NUL>> :
                w \in OtherWords, ps \in SeqsUpTo(TailPieces, MaxSuffix)}
        \cup {l \o <<NUL>> : l \in LimitLines \cup PickedLines}

\* The byte behind the line's allocation.
Garbage == {NUL, DIGIT0 + 1}

(***************************************************************************)
(* The calculator's loop over the lines                                    *)
(***************************************************************************)
NoLine == [type |-> "NONE", cmd |-> "", arg |-> NoArg, p |-> ZeroedPoly]
NoHeap == [made |-> <<>>, freed |-> <<>>]

Init ==
    /\ pc = "idle"
    /\ lineNr = 1
    /\ errno = [now |-> 0, entry |-> 0]
    /\ str = <<>>
    /\ line = NoLine
    /\ stderr = <<>>
    /\ heap = NoHeap
    /\ reads = {}

\* Line lineNr is read and Parse is called on it.
ParseLine(l, g) ==
    LET Returned(r) ==
            /\ line' = r.line
            /\ errno' = [now |-> r.io.errno, entry |-> errno.now]
            /\ stderr' = r.io.out
            /\ heap' = [made |-> r.io.made, freed |-> r.io.freed]
            /\ reads' = r.io.rd
    IN  /\ pc = "idle"
        /\ lineNr <= MaxLineNr
        /\ Returned(Parse(CVector(l, g), lineNr, Io(errno.now)))
        /\ str' = l
        /\ pc' = "parsed"
        /\ UNCHANGED lineNr

\* The driver consumes the parsed line and frees the text; errno stays.
Execute ==
    /\ pc = "parsed"
    /\ pc' = "idle"
    /\ lineNr' = lineNr + 1
    /\ errno' = [errno EXCEPT !.entry = 0]
    /\ str' = <<>>
    /\ line' = NoLine
    /\ stderr' = <<>>
    /\ heap' = NoHeap
    /\ reads' = {}

Next == (\E l \in Lines, g \in Garbage : ParseLine(l, g)) \/ Execute

Spec == Init /\ [][Next]_vars

(***************************************************************************)
(* What the text of a line says, read off the text alone                   *)
(***************************************************************************)
Parsed == pc = "parsed"

\* The text of the line: str without its terminating '\0', at 1 .. TextLen.
TextLen == Len(str) - 1

FirstIsAlpha == isalpha(str[1])

IsDigits(i, j) == i <= j /\ \A k \in i..j : isdigit(str[k])

\* The decimal value written at i .. j, a non-empty run of digits.
Written(i, j) == Strip([k \in 1..(j - i + 1) |-> str[i + k - 1] - DIGIT0])

GCoefficient(i, j) ==
    \/ IsDigits(i, j) /\ MagLeq(Written(i, j), LLONG_MAX_MAG)
    \/ i < j /\ str[i] = MINUS /\ IsDigits(i + 1, j)
             /\ MagLeq(Written(i + 1, j), LLONG_MIN_MAG)

GExponent(i, j) == IsDigits(i, j) /\ MagLeq(Written(i, j), INT_MAX_MAG)

RECURSIVE GPolynomial(_, _)
RECURSIVE GTermSum(_, _)
RECURSIVE GTerm(_, _)
\* Polynomial := Coefficient | TermSum
GPolynomial(i, j) == i <= j /\ (GCoefficient(i, j) \/ GTermSum(i, j))

\* TermSum := Term ('+' Term)*
GTermSum(i, j) ==
    \/ GTerm(i, j)
    \/ \E k \in (i + 1)..(j - 1) : str[k] = PLUS /\ GTerm(i, k - 1) /\ GTermSum(k + 1, j)

\* Term := '(' Polynomial ',' Exponent ')'
GTerm(i, j) ==
    /\ i < j /\ str[i] = LPAREN /\ str[j] = RPAREN
    /\ \E k \in (i + 1)..(j - 1) :
          str[k] = COMMA /\ GExponent(k + 1, j - 1) /\ GPolynomial(i + 1, k - 1)

Derivable == GPolynomial(1, TextLen)

OnlyMessage(msg) == stderr = <<<<"ERROR", lineNr, msg>>>>

\* C1: a line whose first character is not alphabetic gives a polynomial
\* exactly when the whole line is derivable from the grammar (coefficients in
\* the signed 64-bit range, exponents in 0 .. INT_MAX); every other such
\* line, the empty one included, gives Error with the message WRONG POLY.
C1_PolyIffGrammar ==
    (Parsed /\ ~FirstIsAlpha) =>
        /\ line.type = "POLY" <=> Derivable
        /\ ~Derivable => line = WrongLine /\ OnlyMessage(WRONG_POLY)

C1_Witness ==
    /\ Parsed /\ line.type = "POLY" /\ line.p.tag = "monos"
    /\ Len(line.p.monos) >= 2
    /\ line.p.monos[1].p.tag = "monos"

\* The argument of a command: digits for DEG_BY and COMPOSE within the
\* unsigned 64-bit range, an optional '-' and digits for AT within the signed.
ValidArgument(w, i, j) ==
    IF w = AT THEN GCoefficient(i, j)
    ELSE IsDigits(i, j) /\ MagLeq(Written(i, j), ULLONG_MAX_MAG)

ArgumentValue(i, j) ==
    IF str[i] = MINUS THEN Num(TRUE, Written(i + 1, j)) ELSE Num(FALSE, Written(i, j))

StartsWith(w) == TextLen >= Len(w) /\ SubSeq(str, 1, Len(w)) = w

\* The line is w, one separator for which Sep holds, and a valid argument.
WithArgument(w, Sep(_)) ==
    /\ StartsWith(w) /\ TextLen >= Len(w) + 2
    /\ Sep(str[Len(w) + 1])
    /\ ValidArgument(w, Len(w) + 2, TextLen)

IsSpaceChar(c) == c = SPACE

IsCommand(name) == line.type = "COMMAND" /\ line.cmd = name

ArgCommands == <<[name |-> "DEG_BY", w |-> DEG_BY], [name |-> "AT", w |-> AT],
                 [name |-> "COMPOSE", w |-> COMPOSE]>>

\* C2 as stated: DEG_BY, AT and COMPOSE are accepted exactly when followed by
\* one white-space character (any isspace) and a valid argument.
C2_AnyWhitespace ==
    Parsed => \A n \in 1..3 :
        IsCommand(ArgCommands[n].name) <=> WithArgument(ArgCommands[n].w, isspace)

\* C2, amended: DEG_BY, AT and COMPOSE are accepted exactly when followed by
\* one space character ' ' and a valid argument with nothing after it, and
\* the command then carries the argument's numeric value.
C2_OneSpace ==
    Parsed => \A n \in 1..3 :
        /\ IsCommand(ArgCommands[n].name) <=> WithArgument(ArgCommands[n].w, IsSpaceChar)
        /\ IsCommand(ArgCommands[n].name) =>
              line.arg = ArgumentValue(Len(ArgCommands[n].w) + 2, TextLen)

C2_Witness == Parsed /\ IsCommand("AT") /\ line.arg = Num(TRUE, LLONG_MIN_MAG)

\* The line is w followed by the end of the line or a white-space character.
Followed(w) ==
    StartsWith(w) /\ (TextLen = Len(w) \/ isspace(str[Len(w) + 1]))

ExpectedMessage ==
    IF Followed(DEG_BY) THEN DEG_BY_WRONG_VARIABLE
    ELSE IF Followed(AT) THEN AT_WRONG_VALUE
    ELSE IF Followed(COMPOSE) THEN COMPOSE_WRONG_PARAMETER
    ELSE WRONG_COMMAND

\* C3: a rejected line whose first character is alphabetic gets the message
\* of DEG_BY, AT or COMPOSE when it is that keyword followed by the end of
\* the line or a white-space character, and WRONG COMMAND otherwise; never
\* WRONG POLY.
C3_CommandMessage ==
    (Parsed /\ FirstIsAlpha /\ line.type = "ERROR") => OnlyMessage(ExpectedMessage)

C3_Witness ==
    /\ Parsed /\ line.type = "ERROR"
    /\ str = Str("DEG_BY x") \o <<NUL>>
    /\ OnlyMessage(DEG_BY_WRONG_VARIABLE)

Messages ==
    {WRONG_COMMAND, WRONG_POLY, DEG_BY_WRONG_VARIABLE, AT_WRONG_VALUE,
     COMPOSE_WRONG_PARAMETER}

\* C4: Parse writes exactly one line ERROR n MESSAGE when it returns Error
\* and nothing when it returns a command or a polynomial, however deep in
\* the nesting the failure was found.
C4_OneDiagnostic ==
    Parsed =>
        /\ line.type \in {"ERROR", "COMMAND", "POLY"}
        /\ line.type = "ERROR" => \E m \in Messages : OnlyMessage(m)
        /\ line.type # "ERROR" => stderr = <<>>

\* A failure found below two levels of nesting, after a term was built.
C4_Witness ==
    /\ Parsed /\ line.type = "ERROR" /\ Len(stderr) = 1
    /\ \E i, j \in 1..Len(heap.made) :
          i # j /\ heap.made[i][1] = "P" /\ heap.made[j][1] = "P"

\* The numbers written in the text from index i on, in order: each maximal
\* run of digits, negative when a '-' stands right before it.
RunEnd(i) ==
    CHOOSE j \in i..TextLen : IsDigits(i, j) /\ (j = TextLen \/ ~isdigit(str[j + 1]))

RECURSIVE WrittenNumbers(_)
WrittenNumbers(i) ==
    IF i > TextLen THEN <<>>
    ELSE IF isdigit(str[i])
    THEN <<Num(i > 1 /\ str[i - 1] = MINUS, Written(i, RunEnd(i)))>>
            \o WrittenNumbers(RunEnd(i) + 1)
    ELSE WrittenNumbers(i + 1)

\* A run of digits starts at i; it is an exponent when it follows a ','.
RunStarts == {i \in 1..TextLen : isdigit(str[i]) /\ (i = 1 \/ ~isdigit(str[i - 1]))}

OutOfRange(i) ==
    ~MagLeq(Written(i, RunEnd(i)),
            IF i > 1 /\ str[i - 1] = COMMA THEN INT_MAX_MAG
            ELSE IF i > 1 /\ str[i - 1] = MINUS THEN LLONG_MIN_MAG
            ELSE LLONG_MAX_MAG)

\* An exponent written with a '-'.
NegativeExponent == \E i \in 1..(TextLen - 1) : str[i] = COMMA /\ str[i + 1] = MINUS

RECURSIVE ValuesOfPoly(_)
RECURSIVE ValuesOfMonos(_, _)
\* The coefficients and exponents a polynomial carries, in the order written.
ValuesOfPoly(p) ==
    IF p.tag = "coeff" THEN <<p.c>>
    ELSE IF p.tag = "monos" THEN ValuesOfMonos(p.monos, 1) ELSE <<>>

ValuesOfMonos(ms, i) ==
    IF i > Len(ms) THEN <<>>
    ELSE ValuesOfPoly(ms[i].p) \o <<ms[i].exp>> \o ValuesOfMonos(ms, i + 1)

\* C5: a polynomial line with a coefficient outside the signed 64-bit range
\* or an exponent above INT_MAX gives Error with WRONG POLY, and an accepted
\* literal carries exactly the decimal values written, none wrapped,
\* truncated or clamped.
C5_NoWrappedNumber ==
    (Parsed /\ ~FirstIsAlpha) =>
        /\ ((\E i \in RunStarts : OutOfRange(i)) \/ NegativeExponent) =>
              line = WrongLine /\ OnlyMessage(WRONG_POLY)
        /\ line.type = "POLY" => ValuesOfPoly(line.p) = WrittenNumbers(1)

C5_Witness ==
    /\ Parsed /\ line.type = "POLY" /\ line.p.tag = "monos"
    /\ line.p.monos[1].p = PolyFromCoeff(Num(TRUE, LLONG_MIN_MAG))
    /\ line.p.monos[1].exp = Num(FALSE, INT_MAX_MAG)

Count(seq, x) == Cardinality({i \in 1..Len(seq) : seq[i] = x})
Range(seq) == {seq[i] : i \in 1..Len(seq)}

RECURSIVE SumsOfPoly(_)
\* The sums of terms in a polynomial, itself and the nested ones.
SumsOfPoly(p) ==
    IF p.tag = "monos"
    THEN {p} \cup UNION {SumsOfPoly(p.monos[i].p) : i \in 1..Len(p.monos)}
    ELSE {}

ExponentsOf(sum) == [i \in 1..Len(sum.monos) |-> sum.monos[i].exp]

\* The ')' that closes the '(' at i.
RECURSIVE Closing(_, _)
Closing(k, depth) ==
    IF str[k] = RPAREN THEN (IF depth = 1 THEN k ELSE Closing(k + 1, depth - 1))
    ELSE IF str[k] = LPAREN THEN Closing(k + 1, depth + 1)
    ELSE Closing(k + 1, depth)

\* The exponent written before the ')' at c.
ExponentBefore(c) ==
    Written(CHOOSE k \in 2..(c - 1) : str[k - 1] = COMMA /\ IsDigits(k, c - 1), c - 1)

\* The exponents written in the sum of terms that starts at the '(' at i.
RECURSIVE WrittenExponents(_)
WrittenExponents(i) ==
    LET Term(c) ==
            <<Num(FALSE, ExponentBefore(c))>>
                \o (IF c < TextLen /\ str[c + 1] = PLUS
                    THEN WrittenExponents(c + 2) ELSE <<>>)
    IN  Term(Closing(i + 1, 1))

C8_ExactKeyword ==
    Parsed => \A k \in 1..Len(NoArgCommands) :
        /\ IsCommand(NoArgCommands[k]) <=> str = NoArgLiterals[k] \o <<NUL>>
        /\ IsCommand(NoArgCommands[k]) => line.arg = NoArg

C8_Witness == Parsed /\ line = CommandLine("IS_COEFF")

\* What Parse gives for the line on a fresh errno, as line 1, is what it gave.
SameResult(f) ==
    /\ line = f.line
    /\ Len(stderr) = Len(f.io.out)
    /\ \A i \in 1..Len(stderr) :
          /\ stderr[i][1] = f.io.out[i][1]
          /\ stderr[i][2] = lineNr
          /\ stderr[i][3] = f.io.out[i][3]

\* C9: the result of Parse depends on the line alone: not on errno as earlier
\* calls left it, nor on the line number, which only the diagnostic shows.
C9_OnlyTheLine == Parsed => SameResult(Parse(CVector(str, NUL), 1, Io(0)))

C9_Witness ==
    /\ Parsed /\ errno.entry = ERANGE /\ lineNr > 1
    /\ line.type = "POLY" /\ line.p.tag = "monos"

\* C10: every read of the line is at an index below its size.
C10_ReadsInBounds == Parsed => reads \subseteq 0..(Len(str) - 1)

\* The terminating '\0' is read right after a '+'.
C10_Witness ==
    /\ Parsed /\ TextLen >= 1 /\ str[TextLen] = PLUS
    /\ TextLen \in reads
    /\ \E i \in 1..Len(heap.made) : heap.made[i][1] = "M"

====
